---- MODULE Spec2Model ----
(***************************************************************************)
(* A model of controllers/etudiantController.js: the ten request handlers  *)
(* of the students resource, run against a document store (the Etudiant    *)
(* Mongoose model).  The store is a sequence of student documents; every   *)
(* handler is one atomic step, except createEtudiant, which awaits the     *)
(* store twice (findOne, then create) and is therefore two steps between   *)
(* which other requests may run.                                           *)
(***************************************************************************)
EXTENDS Integers, Sequences, FiniteSets, TLC

VARIABLES
  store,        \* the collection: a sequence of documents, in insertion order
  createReq,    \* per client: the createEtudiant call in flight, if any, with
                \* its body and (history) how many documents its findOne read
  created,      \* history: the ids returned with a 201 response
  deactivated,  \* history: ids soft-deleted and not reactivated by an update since
  last          \* history: the handler step that ran last, with its response

vars == <<store, createReq, created, deactivated, last>>

(***************************************************************************)
(* Bounds                                                                  *)
(***************************************************************************)
\* The collection never holds more documents than this.
MaxStudents == 2

\* Clients that may have a createEtudiant call in flight.
Clients == {"c1", "c2"}
\* The sequential specification lets one of them create.
Solo == {"c1"}

(***************************************************************************)
(* Strings that the code inspects character by character are sequences of  *)
(* one-character strings; the others (email, sortBy, order) are only       *)
(* compared.                                                               *)
(***************************************************************************)
Ma == <<"M", "a">>
Du == <<"D", "u">>
Al == <<"A", "l">>
Je == <<"J", "e">>
CS == <<"C", "S">>
MT == <<"M", "T">>

\* A value that does not cast to Number (a string such as "abc", or NaN).
NaN == 0 - 1

\* String.prototype.toLowerCase on the alphabet of the model.
Lower(ch) ==
  CASE ch = "M" -> "m"
    [] ch = "A" -> "a"
    [] ch = "D" -> "d"
    [] ch = "J" -> "j"
    [] OTHER -> ch

Digits == {"0", "1", "2", "3", "4", "5", "6", "7", "8", "9"}

DigitValue(ch) ==
  CASE ch = "0" -> 0 [] ch = "1" -> 1 [] ch = "2" -> 2 [] ch = "3" -> 3
    [] ch = "4" -> 4 [] ch = "5" -> 5 [] ch = "6" -> 6 [] ch = "7" -> 7
    [] ch = "8" -> 8 [] ch = "9" -> 9

\* The length of the longest prefix of s made of digits.
RECURSIVE DigitPrefix(_)
DigitPrefix(s) ==
  IF s = <<>> \/ Head(s) \notin Digits THEN 0 ELSE 1 + DigitPrefix(Tail(s))

RECURSIVE Decimal(_, _)
Decimal(s, n) ==
  IF n = 0 THEN 0 ELSE 10 * Decimal(s, n - 1) + DigitValue(s[n])

\* parseInt(s) for a string of digits and letters: the value of the leading
\* digits, NaN when there is none.
parseInt(s) ==
  IF DigitPrefix(s) = 0 THEN NaN ELSE Decimal(s, DigitPrefix(s))

\* parseFloat(s) on the same strings (no sign, point or exponent among them).
parseFloat(s) ==
  IF DigitPrefix(s) = 0 THEN NaN ELSE Decimal(s, DigitPrefix(s))

\* new RegExp(p, 'i') throws a SyntaxError on an unterminated group.
RegExpThrows(p) == \E k \in 1..Len(p) : p[k] = "("

\* Whether pattern p (literal characters, and "." for any character) matches
\* s at offset i, ignoring case.
MatchAt(p, s, i) ==
  \A k \in 1..Len(p) :
    /\ i + k - 1 <= Len(s)
    /\ \/ p[k] = "."
       \/ Lower(p[k]) = Lower(s[i + k - 1])

\* new RegExp(p, 'i').test(s): an unanchored, case-insensitive match.
RegExpTest(p, s) == \E i \in 1..(Len(s) + 1) : MatchAt(p, s, i)

(***************************************************************************)
(* Errors a store call or a RegExp construction may throw.                 *)
(***************************************************************************)
DuplicateKeyCode == 11000

NoError == [kind |-> "none", code |-> 0, message |-> ""]
NetworkError == [kind |-> "fault", code |-> 0, message |-> "connection lost"]
ValidationError ==
  [kind |-> "validation", code |-> 0, message |-> "Etudiant validation failed"]
DuplicateKeyError ==
  [kind |-> "duplicate", code |-> DuplicateKeyCode,
   message |-> "E11000 duplicate key error"]
CastError ==
  [kind |-> "cast", code |-> 0, message |-> "Cast to ObjectId failed"]
SyntaxError ==
  [kind |-> "syntax", code |-> 0, message |-> "Invalid regular expression"]

(***************************************************************************)
(* The Etudiant model (the persistence collaborator).  A call returns      *)
(* [error, value, store]: the error thrown (NoError when it returns), the  *)
(* documents returned, and the collection after the call.  fault is the    *)
(* environment's choice that the store is unreachable for this call.       *)
(***************************************************************************)
Required == {"nom", "prenom", "email", "filiere", "annee", "moyenne"}

Throw(e, s) == [error |-> e, value |-> <<>>, store |-> s]
Return(v, s) == [error |-> NoError, value |-> v, store |-> s]

\* Schema validation of the fields a body or patch carries.
CastsOk(b) ==
  /\ "annee" \in DOMAIN b => b.annee # NaN
  /\ "moyenne" \in DOMAIN b => b.moyenne # NaN

\* An identifier of the store's format (an ObjectId).
IsObjectId(id) == id >= 1

EmailTaken(s, email, except) ==
  \E i \in 1..Len(s) : s[i].id # except /\ s[i].email = email

\* The document stored for a valid body: the schema defaults actif to true.
NewDoc(id, b) ==
  [id |-> id, nom |-> b.nom, prenom |-> b.prenom, email |-> b.email,
   filiere |-> b.filiere, annee |-> b.annee, moyenne |-> b.moyenne,
   actif |-> IF "actif" \in DOMAIN b THEN b.actif ELSE TRUE]

\* The document with the fields of patch p set.
Patched(d, p) ==
  [f \in DOMAIN d |-> IF f \in DOMAIN p THEN p[f] ELSE d[f]]

\* One condition of a filter on field f of document d: an equality, a regular
\* expression, or a range with $gte and/or $lte.
Cond(d, f, c) ==
  CASE c.op = "eq" -> d[f] = c.v
    [] c.op = "regex" -> RegExpTest(c.p, d[f])
    [] c.op = "range" ->
         /\ "gte" \in DOMAIN c => d[f] >= c.gte
         /\ "lte" \in DOMAIN c => d[f] <= c.lte

AllConds(d, fl) == \A f \in DOMAIN fl : Cond(d, f, fl[f])

\* A filter is [and |-> conditions by field, or |-> alternatives]: the document
\* meets every condition of "and" and, when there are alternatives, one of them.
Matches(d, filter) ==
  /\ AllConds(d, filter.and)
  /\ filter.or # <<>> => \E i \in 1..Len(filter.or) : AllConds(d, filter.or[i])

\* Casting the filter to the schema fails on a range bound that is no number.
FilterCasts(filter) ==
  \A f \in DOMAIN filter.and :
    LET c == filter.and[f]
    IN  c.op = "range" =>
          /\ "gte" \in DOMAIN c => c.gte # NaN
          /\ "lte" \in DOMAIN c => c.lte # NaN

find(s, filter, fault) ==
  LET Test(d) == Matches(d, filter)
  IN  IF fault THEN Throw(NetworkError, s)
      ELSE IF ~FilterCasts(filter) THEN Throw(CastError, s)
      ELSE Return(SelectSeq(s, Test), s)

findOne(s, nom, prenom, fault) ==
  LET Test(d) == d.nom = nom /\ d.prenom = prenom
      hits == SelectSeq(s, Test)
  IN  IF fault THEN Throw(NetworkError, s)
      ELSE Return(IF hits = <<>> THEN <<>> ELSE <<Head(hits)>>, s)

create(s, body, fault) ==
  IF fault THEN Throw(NetworkError, s)
  ELSE IF ~(Required \subseteq DOMAIN body /\ CastsOk(body))
  THEN Throw(ValidationError, s)
  ELSE IF EmailTaken(s, body.email, 0) THEN Throw(DuplicateKeyError, s)
  ELSE LET doc == NewDoc(Len(s) + 1, body)
       IN  Return(<<doc>>, Append(s, doc))

findById(s, id, fault) ==
  LET Test(d) == d.id = id
  IN  IF fault THEN Throw(NetworkError, s)
      ELSE IF ~IsObjectId(id) THEN Throw(CastError, s)
      ELSE Return(SelectSeq(s, Test), s)

findByIdAndUpdate(s, id, patch, opts, fault) ==
  IF fault THEN Throw(NetworkError, s)
  ELSE IF ~IsObjectId(id) THEN Throw(CastError, s)
  ELSE IF opts.runValidators /\ ~CastsOk(patch) THEN Throw(ValidationError, s)
  ELSE IF ~(id \in 1..Len(s)) THEN Return(<<>>, s)
  ELSE IF "email" \in DOMAIN patch /\ EmailTaken(s, patch.email, id)
  THEN Throw(DuplicateKeyError, s)
  ELSE LET after == [s EXCEPT ![id] = Patched(s[id], patch)]
       IN  Return(<<IF opts.new THEN after[id] ELSE s[id]>>, after)

\* Query.sort: a stable sort of docs on one field, dir = 1 or -1; a field the
\* documents do not have orders nothing.
RECURSIVE Insert(_, _, _, _)
Insert(d, sorted, key, dir) ==
  IF sorted = <<>> THEN <<d>>
  ELSE IF dir * d[key] < dir * Head(sorted)[key] THEN <<d>> \o sorted
  ELSE <<Head(sorted)>> \o Insert(d, Tail(sorted), key, dir)

RECURSIVE sort(_, _)
sort(docs, sortOptions) ==
  IF docs = <<>> \/ DOMAIN sortOptions = {} THEN docs
  ELSE LET key == CHOOSE k \in DOMAIN sortOptions : TRUE
           n == Len(docs)
       IN  IF key \notin DOMAIN docs[1] THEN docs
           ELSE Insert(docs[n], sort(SubSeq(docs, 1, n - 1), sortOptions),
                       key, sortOptions[key])

(***************************************************************************)
(* The handlers.  Each is a function of the collection, the request and    *)
(* the store's availability, and yields [store, resp, thrown]: the         *)
(* collection afterwards, the response sent (status and JSON envelope) and *)
(* the error its catch block received (NoError when none was thrown).      *)
(***************************************************************************)
Empty == [k \in {} |-> k]

Outcome(s, r, e) == [store |-> s, resp |-> r, thrown |-> e]

\* The handler awaits its next store call: nothing is sent yet.
NoResponse == [status |-> 0]

\* A query-string parameter that is present and not the empty string.
Given(q, k) == k \in DOMAIN q /\ q[k] # <<>>
GivenToken(q, k) == k \in DOMAIN q /\ q[k] # ""

NotFound ==
  [status |-> 404, success |-> FALSE, message |-> "Etudiant non trouve"]

ServerError(e) ==
  [status |-> 500, success |-> FALSE, message |-> "Erreur serveur",
   error |-> e.message]

\* createEtudiant's catch block.
createCatch(e) ==
  IF e.code = DuplicateKeyCode
  THEN [status |-> 400, success |-> FALSE, message |-> "Cet email existe deja"]
  ELSE [status |-> 400, success |-> FALSE, message |-> "Donnees invalides",
        error |-> e.message]

DuplicateName ==
  [status |-> 400, success |-> FALSE,
   message |-> "Un etudiant avec ce nom et ce prenom existe deja"]

\* Mutant: the result of findOne is not looked at.
createEtudiantFindOne_NoCheck(s, body, fault) ==
  LET r == findOne(s, body.nom, body.prenom, fault)
  IN  IF r.error # NoError THEN Outcome(s, createCatch(r.error), r.error)
      ELSE Outcome(s, NoResponse, NoError)

\* createEtudiant up to its first await's result: the duplicate check.
createEtudiantFindOne(s, body, fault) ==
  LET r == findOne(s, body.nom, body.prenom, fault)
  IN  IF r.error # NoError THEN Outcome(s, createCatch(r.error), r.error)
      ELSE IF r.value # <<>> THEN Outcome(s, DuplicateName, NoError)
      ELSE Outcome(s, NoResponse, NoError)

\* Mutant: the insert looks for the nom and prenom again, in the same step.
createEtudiantCreate_Recheck(s, body, fault) ==
  LET r == create(s, body, fault)
  IN  IF r.error # NoError THEN Outcome(s, createCatch(r.error), r.error)
      ELSE IF findOne(s, body.nom, body.prenom, FALSE).value # <<>>
      THEN Outcome(s, DuplicateName, NoError)
      ELSE Outcome(r.store,
                   [status |-> 201, success |-> TRUE,
                    message |-> "Etudiant cree avec succes",
                    data |-> r.value[1]],
                   NoError)

\* createEtudiant from its second await on: the insert.
createEtudiantCreate(s, body, fault) ==
  LET r == create(s, body, fault)
  IN  IF r.error # NoError THEN Outcome(s, createCatch(r.error), r.error)
      ELSE Outcome(r.store,
                   [status |-> 201, success |-> TRUE,
                    message |-> "Etudiant cree avec succes",
                    data |-> r.value[1]],
                   NoError)

ActiveOnly == [and |-> [actif |-> [op |-> "eq", v |-> TRUE]], or |-> <<>>]

\* Mutant: find({}) instead of find({ actif: true }).
getAllEtudiants_Unfiltered(s, fault) ==
  LET r == find(s, [and |-> Empty, or |-> <<>>], fault)
  IN  IF r.error # NoError THEN Outcome(s, ServerError(r.error), r.error)
      ELSE Outcome(s, [status |-> 200, success |-> TRUE,
                       count |-> Len(r.value), data |-> r.value], NoError)

getAllEtudiants(s, fault) ==
  LET r == find(s, ActiveOnly, fault)
  IN  IF r.error # NoError THEN Outcome(s, ServerError(r.error), r.error)
      ELSE Outcome(s, [status |-> 200, success |-> TRUE,
                       count |-> Len(r.value), data |-> r.value], NoError)

getEtudiantById(s, id, fault) ==
  LET r == findById(s, id, fault)
  IN  IF r.error # NoError THEN Outcome(s, ServerError(r.error), r.error)
      ELSE IF r.value = <<>> THEN Outcome(s, NotFound, NoError)
      ELSE Outcome(s, [status |-> 200, success |-> TRUE, data |-> r.value[1]],
                   NoError)

\* Mutant: without new: true the document before the update is returned.
updateOptions_Old == [new |-> FALSE, runValidators |-> TRUE]

updateOptions == [new |-> TRUE, runValidators |-> TRUE]

updateEtudiant(s, id, body, fault) ==
  LET r == findByIdAndUpdate(s, id, body, updateOptions, fault)
  IN  IF r.error # NoError
      THEN Outcome(s, [status |-> 400, success |-> FALSE,
                       message |-> "Erreur de mise a jour",
                       error |-> r.error.message], r.error)
      ELSE IF r.value = <<>> THEN Outcome(s, NotFound, NoError)
      ELSE Outcome(r.store,
                   [status |-> 200, success |-> TRUE,
                    message |-> "Etudiant mis a jour avec succes",
                    data |-> r.value[1]],
                   NoError)

deletePatch == [actif |-> FALSE]
deleteOptions == [new |-> TRUE, runValidators |-> FALSE]

\* Mutant: only an active document is found and deactivated.
deleteEtudiant_ActiveOnly(s, id, fault) ==
  LET r == findByIdAndUpdate(s, id, deletePatch, deleteOptions, fault)
  IN  IF r.error # NoError THEN Outcome(s, ServerError(r.error), r.error)
      ELSE IF r.value = <<>> \/ ~s[id].actif THEN Outcome(s, NotFound, NoError)
      ELSE Outcome(r.store,
                   [status |-> 200, success |-> TRUE,
                    message |-> "Etudiant desactive avec succes",
                    data |-> r.value[1]],
                   NoError)

\* Mutant: findByIdAndDelete, the document is removed from the collection.
deleteEtudiant_Remove(s, id, fault) ==
  LET r == findById(s, id, fault)
      Others(d) == d.id # id
  IN  IF r.error # NoError THEN Outcome(s, ServerError(r.error), r.error)
      ELSE IF r.value = <<>> THEN Outcome(s, NotFound, NoError)
      ELSE Outcome(SelectSeq(s, Others),
                   [status |-> 200, success |-> TRUE,
                    message |-> "Etudiant desactive avec succes",
                    data |-> r.value[1]],
                   NoError)

deleteEtudiant(s, id, fault) ==
  LET r == findByIdAndUpdate(s, id, deletePatch, deleteOptions, fault)
  IN  IF r.error # NoError THEN Outcome(s, ServerError(r.error), r.error)
      ELSE IF r.value = <<>> THEN Outcome(s, NotFound, NoError)
      ELSE Outcome(r.store,
                   [status |-> 200, success |-> TRUE,
                    message |-> "Etudiant desactive avec succes",
                    data |-> r.value[1]],
                   NoError)

getEtudiantsByFiliere(s, filiere, fault) ==
  LET r == find(s, [and |-> [filiere |-> [op |-> "eq", v |-> filiere]],
                    or |-> <<>>], fault)
  IN  IF r.error # NoError THEN Outcome(s, ServerError(r.error), r.error)
      ELSE Outcome(s, [status |-> 200, success |-> TRUE, count |-> Len(r.value),
                       filiere |-> filiere, data |-> r.value], NoError)

searchEtudiants(s, query, fault) ==
  IF ~Given(query, "q")
  THEN Outcome(s, [status |-> 400, success |-> FALSE,
                   message |-> "Le parametre de recherche q est obligatoire"],
               NoError)
  ELSE IF RegExpThrows(query.q)
  THEN Outcome(s, ServerError(SyntaxError), SyntaxError)
  ELSE LET regex == [op |-> "regex", p |-> query.q]
           r == find(s, [and |-> [actif |-> [op |-> "eq", v |-> TRUE]],
                         or |-> <<[nom |-> regex], [prenom |-> regex]>>], fault)
       IN  IF r.error # NoError THEN Outcome(s, ServerError(r.error), r.error)
           ELSE Outcome(s, [status |-> 200, success |-> TRUE,
                            count |-> Len(r.value), query |-> query.q,
                            data |-> r.value], NoError)

getEtudiantsInactifs(s, fault) ==
  LET r == find(s, [and |-> [actif |-> [op |-> "eq", v |-> FALSE]], or |-> <<>>],
                fault)
  IN  IF r.error # NoError THEN Outcome(s, ServerError(r.error), r.error)
      ELSE Outcome(s, [status |-> 200, success |-> TRUE,
                       count |-> Len(r.value), data |-> r.value], NoError)

\* The range condition advancedSearch builds on annee.
anneeRange(query) ==
  [op |-> "range"]
    @@ (IF Given(query, "anneeMin")
        THEN [gte |-> parseInt(query.anneeMin)] ELSE Empty)
    @@ (IF Given(query, "anneeMax")
        THEN [lte |-> parseInt(query.anneeMax)] ELSE Empty)

\* The filter advancedSearch builds from the query string.
advancedFilter(query) ==
  [and |->
     [actif |-> [op |-> "eq", v |-> TRUE]]
       @@ (IF Given(query, "nom")
           THEN [nom |-> [op |-> "regex", p |-> query.nom]] ELSE Empty)
       @@ (IF Given(query, "filiere")
           THEN [filiere |-> [op |-> "eq", v |-> query.filiere]] ELSE Empty)
       @@ (IF Given(query, "anneeMin") \/ Given(query, "anneeMax")
           THEN [annee |-> anneeRange(query)] ELSE Empty)
       @@ (IF Given(query, "moyenneMin")
           THEN [moyenne |->
                   [op |-> "range", gte |-> parseFloat(query.moyenneMin)]]
           ELSE Empty),
   or |-> <<>>]

advancedSearch(s, query, fault) ==
  IF Given(query, "nom") /\ RegExpThrows(query.nom)
  THEN Outcome(s, ServerError(SyntaxError), SyntaxError)
  ELSE LET r == find(s, advancedFilter(query), fault)
       IN  IF r.error # NoError THEN Outcome(s, ServerError(r.error), r.error)
           ELSE Outcome(s, [status |-> 200, success |-> TRUE,
                            count |-> Len(r.value), filters |-> query,
                            data |-> r.value], NoError)

sortOptionsOf(query) ==
  IF GivenToken(query, "sortBy")
  THEN query.sortBy :>
         (IF "order" \in DOMAIN query /\ query.order = "desc" THEN 0 - 1 ELSE 1)
  ELSE Empty

getEtudiantsSorted(s, query, fault) ==
  LET r == find(s, ActiveOnly, fault)
  IN  IF r.error # NoError THEN Outcome(s, ServerError(r.error), r.error)
      ELSE LET etudiants == sort(r.value, sortOptionsOf(query))
           IN  Outcome(s, [status |-> 200, success |-> TRUE,
                           count |-> Len(etudiants), data |-> etudiants]
                            @@ query, NoError)

(***************************************************************************)
(* The requests clients send.                                              *)
(***************************************************************************)
BodyA ==
  [nom |-> Ma, prenom |-> Al, email |-> "a@x", filiere |-> CS, annee |-> 1,
   moyenne |-> 14]
\* The same nom and prenom as BodyA, another email.
BodyA2 == [BodyA EXCEPT !.email = "b@x"]
\* Another nom and prenom, a third email.
BodyC ==
  [nom |-> Du, prenom |-> Je, email |-> "c@x", filiere |-> MT, annee |-> 2,
   moyenne |-> 9]
\* No email: the schema rejects it.
BodyBad ==
  [nom |-> Du, prenom |-> Je, filiere |-> MT, annee |-> 2, moyenne |-> 9]

Bodies == {BodyA, BodyA2, BodyC, BodyBad}

Reactivate == [actif |-> TRUE]
Rename == [nom |-> Ma, prenom |-> Al]
\* An email that a document of BodyA has, and another moyenne.
Regrade == [email |-> "a@x", moyenne |-> 12]
Patches == {Reactivate, Rename, Regrade, [annee |-> NaN]}

\* Identifiers in requests: 0 is one that is no ObjectId, MaxStudents + 1 a
\* well-formed one that no document has.
ReqIds == 0..(MaxStudents + 1)

Filieres == {CS, MT}

SearchQueries ==
  { Empty, [q |-> <<>>], [q |-> <<"m", "A">>], [q |-> <<"j">>], [q |-> <<"(">>] }

AdvancedQueries ==
  { a @@ b @@ c @@ d @@ e :
      a \in {Empty, [nom |-> <<"m", "A">>], [nom |-> <<".">>], [nom |-> <<"(">>]},
      b \in {Empty, [filiere |-> CS], [filiere |-> <<>>]},
      c \in {Empty, [anneeMin |-> <<"2">>]},
      d \in {Empty, [anneeMax |-> <<"1", "a">>]},
      e \in {Empty, [moyenneMin |-> <<"1", "0">>]} }
    \cup {[anneeMax |-> <<"a">>]}

\* A few of them, for the specification of all the handlers.
SomeQueries ==
  { Empty,
    [nom |-> <<"m", "A">>, filiere |-> CS],
    [anneeMin |-> <<"2">>],
    [anneeMax |-> <<"1", "a">>, moyenneMin |-> <<"1", "0">>],
    [nom |-> <<"(">>],
    [anneeMin |-> <<"a">>] }

SortQueries ==
  { Empty, [sortBy |-> "moyenne"], [sortBy |-> "annee", order |-> "desc"],
    [sortBy |-> "moyenne", order |-> "asc"], [sortBy |-> "", order |-> "desc"] }

\* The store is unreachable (TRUE) for one input of each handler only: the
\* response of a handler whose store call fails does not depend on its input.
WithFault(inputs, one) == (inputs \X {FALSE}) \cup {<<one, TRUE>>}

(***************************************************************************)
(* The state machine.                                                      *)
(***************************************************************************)
Idle == [pc |-> "idle"]

Init ==
  /\ store = <<>>
  /\ createReq = [c \in Clients |-> Idle]
  /\ created = {}
  /\ deactivated = {}
  /\ last = [op |-> "init", arg |-> Empty, pre |-> <<>>, thrown |-> NoError,
             resp |-> NoResponse]

\* A handler step with outcome o on the collection.
Step(op, arg, o) ==
  /\ store' = o.store
  /\ last' = [op |-> op, arg |-> arg, pre |-> store, thrown |-> o.thrown,
              resp |-> o.resp]

\* POST /api/etudiants with a body among bodies, up to the result of findOne.
CreateCheck(c, bodies) ==
  /\ createReq[c].pc = "idle"
  /\ \E in \in WithFault(bodies, BodyA) :
       LET o == createEtudiantFindOne(store, in[1], in[2])
       IN  /\ Step("createEtudiant.findOne", [client |-> c, body |-> in[1]], o)
           /\ createReq' =
                IF o.resp = NoResponse
                THEN [createReq EXCEPT
                        ![c] = [pc |-> "checked", body |-> in[1],
                                sawDocs |-> Len(store)]]
                ELSE createReq
  /\ UNCHANGED <<created, deactivated>>

\* POST /api/etudiants, from the result of findOne on.
CreateInsert(c) ==
  /\ createReq[c].pc = "checked"
  /\ \E fault \in BOOLEAN :
       LET body == createReq[c].body
           o == createEtudiantCreate(store, body, fault)
       IN  /\ Len(o.store) <= MaxStudents
           /\ Step("createEtudiant.create",
                   [client |-> c, body |-> body,
                    sawDocs |-> createReq[c].sawDocs], o)
           /\ created' =
                IF o.resp.status = 201
                THEN created \cup {o.resp.data.id} ELSE created
  /\ createReq' = [createReq EXCEPT ![c] = Idle]
  /\ UNCHANGED deactivated

\* GET /api/etudiants
GetAll ==
  /\ \E fault \in BOOLEAN :
       Step("getAllEtudiants", [fault |-> fault], getAllEtudiants(store, fault))
  /\ UNCHANGED <<createReq, created, deactivated>>

\* GET /api/etudiants/:id
GetById ==
  /\ \E in \in WithFault(ReqIds, 1) :
       Step("getEtudiantById", [id |-> in[1]],
            getEtudiantById(store, in[1], in[2]))
  /\ UNCHANGED <<createReq, created, deactivated>>

\* PUT /api/etudiants/:id, with a body among patches.
Update(patches) ==
  /\ \E in \in WithFault(ReqIds \X patches, <<1, Reactivate>>) :
       LET id == in[1][1]
           body == in[1][2]
           o == updateEtudiant(store, id, body, in[2])
       IN  /\ Step("updateEtudiant", [id |-> id, body |-> body], o)
           /\ deactivated' =
                IF /\ o.resp.status = 200
                   /\ "actif" \in DOMAIN body
                   /\ body.actif = TRUE
                THEN deactivated \ {id}
                ELSE deactivated
  /\ UNCHANGED <<createReq, created>>

\* DELETE /api/etudiants/:id
SoftDelete ==
  /\ \E in \in WithFault(ReqIds, 1) :
       LET o == deleteEtudiant(store, in[1], in[2])
       IN  /\ Step("deleteEtudiant", [id |-> in[1]], o)
           /\ deactivated' =
                IF o.resp.status = 200
                THEN deactivated \cup {in[1]} ELSE deactivated
  /\ UNCHANGED <<createReq, created>>

\* GET /api/etudiants/filiere/:filiere
GetByFiliere ==
  /\ \E in \in WithFault(Filieres, CS) :
       Step("getEtudiantsByFiliere", [filiere |-> in[1]],
            getEtudiantsByFiliere(store, in[1], in[2]))
  /\ UNCHANGED <<createReq, created, deactivated>>

\* GET /api/etudiants/search?q=...
Search ==
  /\ \E in \in WithFault(SearchQueries, [q |-> <<"j">>]) :
       Step("searchEtudiants", [query |-> in[1]],
            searchEtudiants(store, in[1], in[2]))
  /\ UNCHANGED <<createReq, created, deactivated>>

\* GET /api/etudiants/inactifs
GetInactifs ==
  /\ \E fault \in BOOLEAN :
       Step("getEtudiantsInactifs", [fault |-> fault],
            getEtudiantsInactifs(store, fault))
  /\ UNCHANGED <<createReq, created, deactivated>>

\* GET /api/etudiants/advanced?nom=&filiere=&anneeMin=&anneeMax=&moyenneMin=,
\* with a query string among queries.
AdvancedSearch(queries) ==
  /\ \E in \in WithFault(queries, Empty) :
       Step("advancedSearch", [query |-> in[1]],
            advancedSearch(store, in[1], in[2]))
  /\ UNCHANGED <<createReq, created, deactivated>>

\* GET /api/etudiants/sorted?sortBy=&order=
GetSorted ==
  /\ \E in \in WithFault(SortQueries, Empty) :
       Step("getEtudiantsSorted", [query |-> in[1]],
            getEtudiantsSorted(store, in[1], in[2]))
  /\ UNCHANGED <<createReq, created, deactivated>>

\* Every handler, one createEtudiant call at a time.
Next ==
  \/ \E c \in Solo : CreateCheck(c, Bodies)
  \/ \E c \in Solo : CreateInsert(c)
  \/ Update(Patches)
  \/ SoftDelete
  \/ GetAll
  \/ GetById
  \/ GetByFiliere
  \/ Search
  \/ GetInactifs
  \/ AdvancedSearch(SomeQueries)
  \/ GetSorted

Spec == Init /\ [][Next]_vars

\* The handlers that write, with the createEtudiant calls of two clients
\* interleaved.
NextConcurrent ==
  \/ \E c \in Clients : CreateCheck(c, {BodyA, BodyA2, BodyC})
  \/ \E c \in Clients : CreateInsert(c)
  \/ Update({Reactivate, Rename})
  \/ SoftDelete

SpecConcurrent == Init /\ [][NextConcurrent]_vars

\* The handlers that write, and advancedSearch with every query string.
NextSearch ==
  \/ \E c \in Solo : CreateCheck(c, {BodyA, BodyC})
  \/ \E c \in Solo : CreateInsert(c)
  \/ Update({Reactivate, Regrade})
  \/ SoftDelete
  \/ AdvancedSearch(AdvancedQueries)

SpecSearch == Init /\ [][NextSearch]_vars

(***************************************************************************)
(* Properties.  A handler "returns" when its catch block was not entered   *)
(* (last.thrown = NoError); what a handler does when the store call throws *)
(* is the subject of C7 and C8.                                            *)
(***************************************************************************)
SamePair(d, b) == d.nom = b.nom /\ d.prenom = b.prenom

HasPair(s, b) == \E i \in 1..Len(s) : SamePair(s[i], b)

IdsOf(docs) == {docs[i].id : i \in 1..Len(docs)}

\* C1: createEtudiant called with the nom and prenom of a document already in
\* the collection (active or not, whatever the email), its findOne returning,
\* responds 400 with success false and the duplicate-name message, inserts
\* nothing then or later, and leaves the collection as it was.
C1_DuplicateNameRejected ==
  ( /\ last.op = "createEtudiant.findOne"
    /\ last.thrown = NoError
    /\ HasPair(last.pre, last.arg.body) )
  => /\ last.resp.status = 400
     /\ last.resp.success = FALSE
     /\ last.resp.message = "Un etudiant avec ce nom et ce prenom existe deja"
     /\ store = last.pre
     /\ createReq[last.arg.client].pc = "idle"

\* C1 witness: the pair was that of an inactive document with another email.
C1_Witness ==
  /\ last.op = "createEtudiant.findOne"
  /\ last.thrown = NoError
  /\ last.arg.body = BodyA2
  /\ \E i \in 1..Len(last.pre) :
       /\ SamePair(last.pre[i], BodyA2)
       /\ last.pre[i].email # BodyA2.email
       /\ ~last.pre[i].actif
  /\ last.resp.status = 400

\* C2: in every reachable state no two documents, active or not, have the
\* same nom and prenom.
C2_UniqueNames ==
  \A i, j \in 1..Len(store) : i # j => ~SamePair(store[i], store[j])

\* C3: the insert of createEtudiant is a store step of its own that looks at
\* no name: once findOne found nothing, create inserts the body and the
\* response is 201 whenever create returns, whatever the collection holds by
\* then.  (With C3_Witness: two concurrent calls with the same nom and prenom
\* both pass the check, both insert and both get 201.)
C3_InsertDoesNotRecheck ==
  ( /\ last.op = "createEtudiant.create"
    /\ last.thrown = NoError )
  => /\ last.resp.status = 201
     /\ store = Append(last.pre, last.resp.data)
     /\ SamePair(last.resp.data, last.arg.body)
     /\ last.resp.data.id \in created

\* C3 witness: the documents of BodyA and BodyA2 (same nom and prenom, two
\* emails) are both stored and both were answered 201; the second insert ran
\* on a collection that held the first, its findOne had run on an empty one.
C3_Witness ==
  /\ last.op = "createEtudiant.create"
  /\ last.resp.status = 201
  /\ last.arg.sawDocs = 0
  /\ Len(last.pre) = 1
  /\ Len(store) = 2
  /\ SamePair(store[1], store[2])
  /\ store[1].email # store[2].email
  /\ {store[1].id, store[2].id} \subseteq created
  /\ {store[1], store[2]} = {NewDoc(store[1].id, BodyA), NewDoc(store[2].id, BodyA2)}

C6_UpdateFrame ==
  ( /\ last.op = "updateEtudiant"
    /\ last.resp.status = 200 )
  => LET id == last.arg.id
         body == last.arg.body
     IN  /\ Len(store) = Len(last.pre)
         /\ id \in 1..Len(store)
         /\ \A i \in 1..Len(store) : i # id => store[i] = last.pre[i]
         /\ \A f \in DOMAIN last.pre[id] \ DOMAIN body :
              store[id][f] = last.pre[id][f]
         /\ \A f \in DOMAIN body : store[id][f] = body[f]
         /\ last.resp.data = store[id]

\* C6 witness: an update of two fields changed both on one document while
\* another document was stored.
C6_Witness ==
  /\ last.op = "updateEtudiant"
  /\ last.resp.status = 200
  /\ Len(store) = 2
  /\ last.arg.body = Rename
  /\ store[last.arg.id].nom # last.pre[last.arg.id].nom
  /\ store[last.arg.id].prenom # last.pre[last.arg.id].prenom

\* C7: getEtudiantById with an identifier that is no ObjectId, on which the
\* store lookup throws, responds 404 with success false, as for a well-formed
\* identifier that no document has.
C7_MalformedIdNotFound ==
  ( /\ last.op = "getEtudiantById"
    /\ ~IsObjectId(last.arg.id)
    /\ last.thrown.kind = "cast" )
  => /\ last.resp.status = 404
     /\ last.resp.success = FALSE

\* C8: in every handler, a store failure that is neither a duplicate key nor
\* a validation failure gives a 500 response with success false, the generic
\* message and the error's text, never a 400.
C8_StoreFaultIs500 ==
  last.thrown.kind = "fault"
  => /\ last.resp.status = 500
     /\ last.resp.success = FALSE
     /\ last.resp.message = "Erreur serveur"
     /\ last.resp.error = last.thrown.message

\* Whether sub occurs in s, ignoring case.
ContainsIgnoreCase(s, sub) ==
  \E i \in 1..(Len(s) - Len(sub) + 1) :
    \A k \in 1..Len(sub) : Lower(s[i + k - 1]) = Lower(sub[k])

\* The documents C9 asks for: active, and meeting every filter that is given.
Wanted(d, query) ==
  /\ d.actif
  /\ Given(query, "nom") => ContainsIgnoreCase(d.nom, query.nom)
  /\ Given(query, "filiere") => d.filiere = query.filiere
  /\ Given(query, "anneeMin") => parseInt(query.anneeMin) <= d.annee
  /\ Given(query, "anneeMax") => d.annee <= parseInt(query.anneeMax)
  /\ Given(query, "moyenneMin") => d.moyenne >= parseFloat(query.moyenneMin)

\* The claim of C9 holds of the query strings whose nom has no "." (among the
\* characters of the model, the one that a regular expression does not read
\* as itself and that does not make it throw).
AdvancedSearchLiteral ==
  ( /\ last.op = "advancedSearch"
    /\ last.thrown = NoError
    /\ Given(last.arg.query, "nom") =>
         \A k \in 1..Len(last.arg.query.nom) : last.arg.query.nom[k] # "." )
  => LET W(d) == Wanted(d, last.arg.query)
     IN  /\ last.resp.status = 200
         /\ last.resp.data = SelectSeq(last.pre, W)
         /\ last.resp.count = Len(last.resp.data)

\* C9: advancedSearch, when it returns, responds with exactly the active
\* documents that meet every given filter (nom: case-insensitive substring;
\* filiere: equality; anneeMin <= annee <= anneeMax; moyenne >= moyenneMin),
\* an absent or empty filter constraining nothing, and count is their number.
C9_AdvancedSearchExact ==
  ( /\ last.op = "advancedSearch"
    /\ last.thrown = NoError )
  => LET W(d) == Wanted(d, last.arg.query)
     IN  /\ last.resp.status = 200
         /\ last.resp.data = SelectSeq(last.pre, W)
         /\ last.resp.count = Len(last.resp.data)

ReadOps ==
  {"getAllEtudiants", "getEtudiantById", "getEtudiantsByFiliere",
   "searchEtudiants", "getEtudiantsInactifs", "advancedSearch",
   "getEtudiantsSorted"}

====
